---- MODULE Spec2Model ----
(***************************************************************************)
(* State-machine model of src/game.js, the simulation layer of a top-down  *)
(* arena shooter: the requestAnimationFrame callback gameLoop (one Tick    *)
(* per frame), the keyboard and mouse handlers, Player.update,             *)
(* Player.takeDamage, Bullet/Enemy/Particle.update, checkCollisions and    *)
(* restart.                                                                *)
(*                                                                         *)
(* Units.  Time is in milliseconds (the code's seconds * 1000).  Positions *)
(* are in tenths of a pixel (PX converts), so that speed * dt is an        *)
(* integer for the player and the bullets.  Unit vectors (cos/sin of an    *)
(* angle, normalised directions) are in thousandths.  Divisions round      *)
(* toward zero (SDiv), which stands for the rounding of the doubles.       *)
(*                                                                         *)
(* Clock.  The code reads the frame timestamp for two differences only:    *)
(* currentTime - lastTime, which is the input elapsed of a Tick, and       *)
(* now - lastShotTime, compared with shootCooldown.  The model keeps the   *)
(* second difference, saturated at shootCooldown, in sinceShot; the        *)
(* assignment lastShotTime = 0 of the constructor and of restart() makes   *)
(* it saturated, the page being older than shootCooldown.                  *)
(***************************************************************************)
EXTENDS Integers, Sequences, FiniteSets, TLC

VARIABLES
    gameState,        \* 'playing' | 'paused' | 'gameOver'
    paused,
    score,
    wave,
    screenShake,      \* [x, y], in thousandths of a pixel
    hitstop,
    combo,
    comboTimer,
    keys,             \* the keys k the simulation reads whose keys[k] is true
    mouse,            \* [x, y, down]; worldX/worldY are copies of x/y
    canvas,           \* [w, h]: canvas.width / dpr and canvas.height / dpr
    player,
    bullets,
    enemies,
    particles,        \* the age of each particle
    sinceShot,        \* now - lastShotTime at the last frame, saturated
    enemySpawnTimer,
    enemySpawnRate,
    enemiesPerWave,
    waveBannerTime,
    inputs,           \* history: input events so far
    quiet,            \* history: ms of frames without hit-stop since the last
                      \* bullet-enemy hit, saturated at comboResetTime
    frames,           \* history: gameLoop calls since the game was (re)started
    simTime,          \* history: the sum of dt over these calls
    step,             \* history: what the last gameLoop call without hit-stop did
    dashes,           \* history: dashes started since the last shift key event
    lastHurt,         \* history: ms of frames without hit-stop and without dash
                      \* since takeDamage last took effect, saturated at
                      \* invulnerableTime, and whether a dash has started since
    frame,            \* history: which branch the last gameLoop call took
    pass,             \* history: what the last checkCollisions call did
    discarded         \* history: the state the last restart() replaced

vars == <<gameState, paused, score, wave, screenShake, hitstop, combo,
          comboTimer, keys, mouse, canvas, player, bullets, enemies,
          particles, sinceShot, enemySpawnTimer, enemySpawnRate,
          enemiesPerWave, waveBannerTime, inputs, quiet, frames, simTime, step,
          dashes, lastHurt, frame, pass, discarded>>

----------------------------------------------------------------------------
(* Bounds of the model: the window, the clock and the inputs.              *)

\* canvas.width / dpr and canvas.height / dpr, in pixels (the window size).
\* The window is not resized during a game.
ArenaW == 100
ArenaH == 100

\* Horizon of a game under all inputs: frames since the (re)start, and the
\* number of input events of a run.
MaxFrames == 8
MaxInputs == 3

\* Horizon of a game under pause and restart only.
MaxFramesLong == 700

\* Horizon of a game under aiming and firing only.
MaxFramesFire == 70

\* The longest slow frame, beyond the 33 ms clamp of dt.
SlowFrame == 160

\* Window width and horizon of a game in which a fast enemy catches up with
\* a slow one.
SwarmW == 900
\* The window and the frames of a game in which the player fires to the right
\* for a second: no bullet leaves the window in that time.
VolleyW == 1200
MaxFramesVolley == 40
\* The window and the frames of the pursuit of a player who stands still at
\* (100, 100).
PursuitW == 200
PursuitH == 200
MaxFramesPursuit == 52
\* The window and the frames of a game in which the enemies are slow and the
\* window so wide that the sixth spawn is due before the first enemy arrives.
CrowdW == 1600
MaxFramesCrowd == 315
\* The frames of a game with hit-stops, and the length in ms of a short frame
\* during a hit-stop.
MaxFramesFreeze == 30
ShortFrame == 7
\* The window and the frames of a game in which enemies of different speeds
\* reach the player together or shortly after one another.
PileW == 1462
MaxFramesPile == 335
\* The frames in which the enemies of that game are of different speeds: its
\* first three spawns.
PileLead == 125
\* The frames of a game in which a combo is cut short by a contact or runs
\* out.
MaxFramesCombo == 90
\* A window so wide that a bullet fired to the right from its centre is 2 s
\* old before it leaves.
RangeW == 2500
\* The frames of a game in which the player only dashes: enough for the dash
\* cooldown to run out once.
MaxFramesDash == 66
MaxFramesSwarm == 182

----------------------------------------------------------------------------
(* Program constants.                                                      *)

comboResetTime == 2000
shakeDecay == 92
MaxDt == 33
playerRadius == 15
playerSpeed == 300
maxHp == 100
invulnerableTime == 700
dashDuration == 200
dashCooldownTime == 2000
dashSpeed == 3
bulletSpeed == 600
bulletRadius == 4
bulletLifetime == 2000
bulletMargin == 50
spawnMargin == 50
particleLifetime == 500
shootCooldown == 150
waveBannerDuration == 2000
contactDamage == 10

----------------------------------------------------------------------------
(* Arithmetic helpers.                                                     *)

PX(n) == 10 * n

Min(a, b) == IF a < b THEN a ELSE b
Max(a, b) == IF a > b THEN a ELSE b
Abs(a) == IF a < 0 THEN -a ELSE a
Sign(a) == IF a < 0 THEN -1 ELSE IF a > 0 THEN 1 ELSE 0

\* Division rounding toward zero.
SDiv(a, b) == Sign(a) * Sign(b) * (Abs(a) \div Abs(b))

RECURSIVE SqrtIter(_, _, _)
SqrtIter(lo, hi, n) ==
    IF lo >= hi THEN lo
    ELSE LET mid == (lo + hi + 1) \div 2
         IN  IF mid * mid <= n THEN SqrtIter(mid, hi, n)
             ELSE SqrtIter(lo, mid - 1, n)

\* Math.sqrt, rounded down.
ISqrt(n) == SqrtIter(0, 32768, n)

\* Math.cos/Math.sin of Math.atan2(dy, dx), in thousandths; atan2(0, 0) = 0.
Atan2(dy, dx) ==
    LET len == ISqrt(dx * dx + dy * dy)
    IN  IF len = 0 THEN [c |-> 1000, s |-> 0]
        ELSE [c |-> SDiv(dx * 1000, len), s |-> SDiv(dy * 1000, len)]

\* dist < ra + rb for centres (ax, ay), (bx, by) and radii in pixels.
Overlap(ax, ay, ra, bx, by, rb) ==
    (ax - bx) * (ax - bx) + (ay - by) * (ay - by) < PX(ra + rb) * PX(ra + rb)

----------------------------------------------------------------------------
(* Input and random-draw domains.                                          *)

\* e.key.toLowerCase() of the keys that are pressed and released.
KeyInputs == {"a", "shift", "p", "r"}

\* Pointer positions over the canvas (mouse.x, mouse.y), in tenths of a pixel.
MousePositions == {[x |-> 0, y |-> PX(ArenaH) \div 2]}

\* Time between two animation frames, in ms.
FrameTimes == {MaxDt, SlowFrame}

\* Enemy constructor draws: Math.floor(Math.random() * 4), the position along
\* the edge in percent, and the radius and speed ranges [12, 20), [80, 120).
Sides == {0}
EdgeDraws == {50}
RadiusDraws == {12, 19}
SpeedDraws == {119}

\* addShake draws (Math.random() - 0.5) * 2, in thousandths.
ShakeDraws == {600}

Draws == [side : Sides, edge : EdgeDraws, radius : RadiusDraws,
          speed : SpeedDraws, shake : ShakeDraws]

----------------------------------------------------------------------------
(* Entities.                                                               *)

\* The window of the games under all inputs.
Arena == [w |-> ArenaW, h |-> ArenaH]

\* new Player(), in a canvas cv
NewPlayer(cv) ==
    [x |-> PX(cv.w) \div 2, y |-> PX(cv.h) \div 2,
     angle |-> [c |-> 1000, s |-> 0],
     hp |-> maxHp, invulnerable |-> 0,
     dashActive |-> FALSE, dashTimer |-> 0, dashCooldown |-> 0,
     dashDirection |-> [x |-> 0, y |-> 0],
     ghostAfterimages |-> <<>>, recoilOffset |-> 0]

\* new Bullet(x, y, angle)
NewBullet(x, y, angle) ==
    [x |-> x, y |-> y, prevX |-> x, prevY |-> y, angle |-> angle, age |-> 0]

\* new Enemy(), in a canvas cv with the constructor's random draws in r.
NewEnemy(cv, r) ==
    LET along(size) == (r.edge * PX(size)) \div 100
        pos == CASE r.side = 0 -> [x |-> -PX(spawnMargin), y |-> along(cv.h)]
                 [] r.side = 1 -> [x |-> PX(cv.w) + PX(spawnMargin), y |-> along(cv.h)]
                 [] r.side = 2 -> [x |-> along(cv.w), y |-> -PX(spawnMargin)]
                 [] OTHER      -> [x |-> along(cv.w), y |-> PX(cv.h) + PX(spawnMargin)]
    IN  [x |-> pos.x, y |-> pos.y, radius |-> r.radius, speed |-> r.speed,
         hp |-> 1, hitFlash |-> 0]

\* addShake(intensity): screenShake += (Math.random() - 0.5) * intensity * 2
addShake(g, intensity, r) ==
    [g EXCEPT !.screenShake = [x |-> @.x + r.shake * intensity,
                               y |-> @.y + r.shake * intensity]]

\* spawnParticles(x, y, count): count new particles, each of age 0
spawnParticles(g, count) ==
    [g EXCEPT !.particles = @ \o [i \in 1..count |-> 0]]

\* screenShake.x *= shakeDecay; screenShake.y *= shakeDecay
DecayShake(g) ==
    [g EXCEPT !.screenShake = [x |-> SDiv(@.x * shakeDecay, 100),
                               y |-> SDiv(@.y * shakeDecay, 100)]]

\* The filter of Player.update and of the hit-stop branch over the afterimages.
FadeGhosts(ghosts, dt) ==
    LET faded == [i \in 1..Len(ghosts) |->
                    [ghosts[i] EXCEPT !.age = @ + dt, !.alpha = @ - 2 * dt]]
    IN  SelectSeq(faded, LAMBDA gh : gh.alpha > 0)

\* recoilOffset -= dt * 20, floored at 0 (thousandths of a pixel)
DecayRecoil(p, dt) ==
    IF p.recoilOffset > 0
    THEN [p EXCEPT !.recoilOffset = Max(0, @ - 20 * dt)]
    ELSE p

\* The WASD/arrow input vector of Player.update, before normalisation.
KeyVector(ks) ==
    [x |-> (IF "d" \in ks \/ "arrowright" \in ks THEN 1 ELSE 0)
           - (IF "a" \in ks \/ "arrowleft" \in ks THEN 1 ELSE 0),
     y |-> (IF "s" \in ks \/ "arrowdown" \in ks THEN 1 ELSE 0)
           - (IF "w" \in ks \/ "arrowup" \in ks THEN 1 ELSE 0)]

\* (dx / len, dy / len) for len = Math.sqrt(dx * dx + dy * dy), in thousandths.
Normalise(v) ==
    LET u == IF v.x # 0 /\ v.y # 0 THEN 707 ELSE 1000
    IN  [x |-> v.x * u, y |-> v.y * u]

\* dir * pxPerSecond * dt, in tenths of a pixel, for a unit component dir.
Travel(dir, pxPerSecond, dt) == SDiv(dir * pxPerSecond * dt, 100000)

----------------------------------------------------------------------------
(* Player.  The operators below take and return g, the record of the       *)
(* program's variables (see World).                                        *)

\* Player.update, lines 146-170: the dash activation.
DashStart(g, p, r) ==
    LET v   == KeyVector(g.keys)
        dir == IF v.x # 0 \/ v.y # 0 THEN Normalise(v)
               ELSE [x |-> p.angle.c, y |-> p.angle.s]
        p1  == [p EXCEPT !.dashDirection = dir, !.dashActive = TRUE,
                         !.dashTimer = dashDuration,
                         !.dashCooldown = dashCooldownTime,
                         !.invulnerable = dashDuration]
    IN  addShake(spawnParticles([g EXCEPT !.player = p1], 8), 3, r)

\* Player.update, lines 172-199: the dash movement and the afterimages.
DashMove(p, dt) ==
    IF p.dashActive
    THEN LET t      == p.dashTimer - dt
             pushed == Append(p.ghostAfterimages,
                              [x |-> p.x, y |-> p.y, angle |-> p.angle,
                               alpha |-> 600, age |-> 0])
             ghosts == IF Len(pushed) > 5 THEN Tail(pushed) ELSE pushed
             p1     == [p EXCEPT !.dashTimer = t, !.ghostAfterimages = ghosts]
         IN  IF t <= 0
             THEN [p1 EXCEPT !.dashActive = FALSE]
             ELSE [p1 EXCEPT
                     !.x = @ + Travel(p.dashDirection.x, playerSpeed * dashSpeed, dt),
                     !.y = @ + Travel(p.dashDirection.y, playerSpeed * dashSpeed, dt)]
    ELSE [p EXCEPT !.ghostAfterimages = FadeGhosts(@, dt)]

\* Player.update, lines 207-222: the normal movement.
WalkMove(p, ks, dt) ==
    LET v == KeyVector(ks)
        u == Normalise(v)
    IN  IF ~p.dashActive /\ (v.x # 0 \/ v.y # 0)
        THEN [p EXCEPT !.x = @ + Travel(u.x, playerSpeed, dt),
                       !.y = @ + Travel(u.y, playerSpeed, dt)]
        ELSE p

\* The bounds, the aim and an invulnerability timer that counts down without
\* the test "this.invulnerable > 0".
ClampAimTimer_AlwaysCounts(cv, p, m, dt) ==
    LET x == Max(PX(playerRadius), Min(PX(cv.w) - PX(playerRadius), p.x))
        y == Max(PX(playerRadius), Min(PX(cv.h) - PX(playerRadius), p.y))
    IN  [p EXCEPT !.x = x, !.y = y,
                  !.angle = Atan2(m.y - y, m.x - x),
                  !.invulnerable = IF ~p.dashActive THEN @ - dt ELSE @]

\* Player.update, lines 224-237: bounds, aim and the invulnerability timer.
ClampAimTimer(cv, p, m, dt) ==
    LET x == Max(PX(playerRadius), Min(PX(cv.w) - PX(playerRadius), p.x))
        y == Max(PX(playerRadius), Min(PX(cv.h) - PX(playerRadius), p.y))
    IN  [p EXCEPT !.x = x, !.y = y,
                  !.angle = Atan2(m.y - y, m.x - x),
                  !.invulnerable = IF @ > 0 /\ ~p.dashActive THEN @ - dt ELSE @]

\* Player.update with a dash activation that does not look at the cooldown.
PlayerUpdate_IgnoresCooldown(g, dt, r) ==
    LET p0 == [g.player EXCEPT
                 !.dashCooldown = IF @ > 0 THEN @ - dt ELSE @]
        g1 == IF ("shift" \in g.keys \/ "shiftleft" \in g.keys
                    \/ "shiftright" \in g.keys)
                 /\ ~p0.dashActive
              THEN DashStart(g, p0, r)
              ELSE [g EXCEPT !.player = p0]
        p3 == WalkMove(DecayRecoil(DashMove(g1.player, dt), dt), g.keys, dt)
    IN  [g1 EXCEPT !.player = ClampAimTimer(g.canvas, p3, g.mouse, dt)]

\* Player.update(dt)
PlayerUpdate(g, dt, r) ==
    LET p0 == [g.player EXCEPT
                 !.dashCooldown = IF @ > 0 THEN @ - dt ELSE @]
        g1 == IF ("shift" \in g.keys \/ "shiftleft" \in g.keys
                    \/ "shiftright" \in g.keys)
                 /\ ~p0.dashActive /\ p0.dashCooldown <= 0
              THEN DashStart(g, p0, r)
              ELSE [g EXCEPT !.player = p0]
        p3 == WalkMove(DecayRecoil(DashMove(g1.player, dt), dt), g.keys, dt)
    IN  [g1 EXCEPT !.player = ClampAimTimer(g.canvas, p3, g.mouse, dt)]

\* takeDamage without "this.invulnerable = this.invulnerableTime".
takeDamage_NoWindow(g, amount, r) ==
    LET p == g.player
    IN  IF p.invulnerable > 0 \/ p.dashActive
        THEN [g |-> g, died |-> FALSE]
        ELSE LET hp == p.hp - amount
                 g1 == addShake([g EXCEPT !.hitstop = 30], 6, r)
             IN  IF hp <= 0
                 THEN [g |-> [g1 EXCEPT !.player.hp = 0], died |-> TRUE]
                 ELSE [g |-> [g1 EXCEPT !.player.hp = hp], died |-> FALSE]

\* takeDamage that signals death only below 0.
takeDamage_LateDeath(g, amount, r) ==
    LET p == g.player
    IN  IF p.invulnerable > 0 \/ p.dashActive
        THEN [g |-> g, died |-> FALSE]
        ELSE LET hp == p.hp - amount
                 g1 == addShake([g EXCEPT !.player.invulnerable = invulnerableTime,
                                          !.hitstop = 30], 6, r)
             IN  IF hp < 0
                 THEN [g |-> [g1 EXCEPT !.player.hp = 0], died |-> TRUE]
                 ELSE [g |-> [g1 EXCEPT !.player.hp = hp], died |-> FALSE]

\* takeDamage without "this.hp = 0" in the death branch.
takeDamage_NoClamp(g, amount, r) ==
    LET p == g.player
    IN  IF p.invulnerable > 0 \/ p.dashActive
        THEN [g |-> g, died |-> FALSE]
        ELSE LET hp == p.hp - amount
                 g1 == addShake([g EXCEPT !.player.invulnerable = invulnerableTime,
                                          !.player.hp = hp,
                                          !.hitstop = 30], 6, r)
             IN  [g |-> g1, died |-> hp <= 0]

\* takeDamage whose guard tests dashActive only.
takeDamage_DashOnly(g, amount, r) ==
    LET p == g.player
    IN  IF p.dashActive
        THEN [g |-> g, died |-> FALSE]
        ELSE LET hp == p.hp - amount
                 g1 == addShake([g EXCEPT !.player.invulnerable = invulnerableTime,
                                          !.hitstop = 30], 6, r)
             IN  IF hp <= 0
                 THEN [g |-> [g1 EXCEPT !.player.hp = 0], died |-> TRUE]
                 ELSE [g |-> [g1 EXCEPT !.player.hp = hp], died |-> FALSE]

\* Player.takeDamage(amount): the record after the call and what it returned.
takeDamage(g, amount, r) ==
    LET p == g.player
    IN  IF p.invulnerable > 0 \/ p.dashActive
        THEN [g |-> g, died |-> FALSE]
        ELSE LET hp == p.hp - amount
                 g1 == addShake([g EXCEPT !.player.invulnerable = invulnerableTime,
                                          !.hitstop = 30], 6, r)
             IN  IF hp <= 0
                 THEN [g |-> [g1 EXCEPT !.player.hp = 0], died |-> TRUE]
                 ELSE [g |-> [g1 EXCEPT !.player.hp = hp], died |-> FALSE]

----------------------------------------------------------------------------
(* Bullets, enemies, particles.                                            *)

\* Bullet.update(dt)
BulletUpdate(b, dt) ==
    [b EXCEPT !.prevX = b.x, !.prevY = b.y,
              !.x = @ + Travel(b.angle.c, bulletSpeed, dt),
              !.y = @ + Travel(b.angle.s, bulletSpeed, dt),
              !.age = @ + dt]

\* Bullet.isOffscreen()
isOffscreen(cv, b) ==
    \/ b.x < -PX(bulletMargin) \/ b.x > PX(cv.w) + PX(bulletMargin)
    \/ b.y < -PX(bulletMargin) \/ b.y > PX(cv.h) + PX(bulletMargin)
    \/ b.age >= bulletLifetime

\* Enemy.update with a step of twice the speed.
EnemyUpdate_DoubleStep(e, p, dt) ==
    LET dx   == p.x - e.x
        dy   == p.y - e.y
        dist == ISqrt(dx * dx + dy * dy)
        e1   == [e EXCEPT !.hitFlash = IF @ > 0 THEN @ - dt ELSE @]
    IN  IF dist > 0
        THEN [e1 EXCEPT !.x = @ + SDiv(2 * dx * e.speed * dt, dist * 100),
                        !.y = @ + SDiv(2 * dy * e.speed * dt, dist * 100)]
        ELSE e1

\* Enemy.update(dt), pursuing the player p.
EnemyUpdate(e, p, dt) ==
    LET dx   == p.x - e.x
        dy   == p.y - e.y
        dist == ISqrt(dx * dx + dy * dy)
        e1   == [e EXCEPT !.hitFlash = IF @ > 0 THEN @ - dt ELSE @]
    IN  IF dist > 0
        THEN [e1 EXCEPT !.x = @ + SDiv(dx * e.speed * dt, dist * 100),
                        !.y = @ + SDiv(dy * e.speed * dt, dist * 100)]
        ELSE e1

\* Particle.update(dt) and the isDead() filter, over the ages.
ParticlesUpdate(ps, dt) ==
    SelectSeq([i \in 1..Len(ps) |-> ps[i] + dt],
              LAMBDA age : ~(age >= particleLifetime))

\* seq without its element at index i: seq.splice(i, 1)
Splice(seq, i) == SubSeq(seq, 1, i - 1) \o SubSeq(seq, i + 1, Len(seq))

----------------------------------------------------------------------------
(* checkCollisions.  Both loops run from the last index down to 0.  The    *)
(* record c carries the game record g and the log of what the call did:    *)
(* hits, one entry per bullet-enemy collision, and contacts, one entry per *)
(* enemy-player collision.  c.ids[j] is the index that enemy j of the      *)
(* current array had when the call began; a bullet's index never changes   *)
(* before the loop reaches it.                                             *)

\* The inner loop run from index 0 up.
HitEnemy_FromFirst(b, es) ==
    LET J == {j \in 1..Len(es) :
                Overlap(b.x, b.y, bulletRadius, es[j].x, es[j].y, es[j].radius)}
    IN  IF J = {} THEN 0 ELSE CHOOSE j \in J : \A k \in J : j <= k

\* The inner loop of lines 496-517: the index of the enemy that bullet b
\* collides with, 0 when the loop ends without a collision.
HitEnemy(b, es) ==
    LET J == {j \in 1..Len(es) :
                Overlap(b.x, b.y, bulletRadius, es[j].x, es[j].y, es[j].radius)}
    IN  IF J = {} THEN 0 ELSE CHOOSE j \in J : \A k \in J : k <= j

\* ResolveHit with the score gain computed before combo++.
ResolveHit_StaleCombo(c, i, j, r) ==
    LET g     == c.g
        newCombo == g.combo + 1
        scoreGain == 10 * g.combo
        g1    == [g EXCEPT !.enemies = Splice(@, j), !.bullets = Splice(@, i),
                           !.combo = newCombo, !.comboTimer = comboResetTime,
                           !.score = @ + scoreGain, !.hitstop = 50]
    IN  [c EXCEPT
           !.g = addShake(spawnParticles(g1, 15), 12, r),
           !.ids = Splice(@, j),
           !.hits = Append(@, [bi |-> i, ej |-> c.ids[j],
                               bullet |-> g.bullets[i],
                               enemy |-> [g.enemies[j] EXCEPT !.hitFlash = 100],
                               comboBefore |-> g.combo, combo |-> newCombo,
                               comboTimer |-> comboResetTime,
                               scoreBefore |-> g.score,
                               score |-> g.score + scoreGain])]

\* Lines 502-514: bullet i has hit enemy j.
ResolveHit(c, i, j, r) ==
    LET g     == c.g
        newCombo == g.combo + 1
        scoreGain == 10 * newCombo
        g1    == [g EXCEPT !.enemies = Splice(@, j), !.bullets = Splice(@, i),
                           !.combo = newCombo, !.comboTimer = comboResetTime,
                           !.score = @ + scoreGain, !.hitstop = 50]
    IN  [c EXCEPT
           !.g = addShake(spawnParticles(g1, 15), 12, r),
           !.ids = Splice(@, j),
           !.hits = Append(@, [bi |-> i, ej |-> c.ids[j],
                               bullet |-> g.bullets[i],
                               enemy |-> [g.enemies[j] EXCEPT !.hitFlash = 100],
                               comboBefore |-> g.combo, combo |-> newCombo,
                               comboTimer |-> comboResetTime,
                               scoreBefore |-> g.score,
                               score |-> g.score + scoreGain])]

\* The loops without the "break": a bullet that has hit stays and goes on to
\* the other enemies it overlaps.
RECURSIVE BulletsVsEnemies_NoBreak(_, _, _)
BulletsVsEnemies_NoBreak(c, i, r) ==
    IF i = 0 THEN c
    ELSE LET j == HitEnemy(c.g.bullets[i], c.g.enemies)
         IN  IF j = 0 THEN BulletsVsEnemies_NoBreak(c, i - 1, r)
             ELSE BulletsVsEnemies_NoBreak(
                      [ResolveHit(c, i, j, r) EXCEPT !.g.bullets = c.g.bullets],
                      i, r)

\* Lines 494-518, from bullet index i down.
RECURSIVE BulletsVsEnemies(_, _, _)
BulletsVsEnemies(c, i, r) ==
    IF i = 0 THEN c
    ELSE LET j == HitEnemy(c.g.bullets[i], c.g.enemies)
         IN  IF j = 0 THEN BulletsVsEnemies(c, i - 1, r)
             ELSE BulletsVsEnemies(ResolveHit(c, i, j, r), i - 1, r)

\* ResolveContact without "combo = 0": the contact stops the timer only.
ResolveContact_KeepsCombo(c, i, r) ==
    LET g    == c.g
        td   == takeDamage(g, contactDamage, r)
        g1   == IF td.died
                THEN [spawnParticles(td.g, 30) EXCEPT !.gameState = "gameOver"]
                ELSE td.g
        g2   == [spawnParticles(g1, 15) EXCEPT
                   !.enemies = Splice(@, i), !.comboTimer = 0,
                   !.score = @ + 10]
        g3   == [addShake(g2, 8, r) EXCEPT !.hitstop = 30]
    IN  [c EXCEPT
           !.g = g3,
           !.ids = Splice(@, i),
           !.contacts = Append(@, [ei |-> c.ids[i], enemy |-> g.enemies[i],
                                   before |-> g.player, after |-> td.g.player,
                                   hitstopBefore |-> g.hitstop,
                                   hitstopAfter |-> td.g.hitstop,
                                   died |-> td.died,
                                   comboBefore |-> g.combo, combo |-> g3.combo,
                                   scoreBefore |-> g.score, score |-> g3.score,
                                   gameState |-> g3.gameState])]

\* ResolveContact that does nothing more when takeDamage was blocked.
ResolveContact_OnlyOnDamage(c, i, r) ==
    LET g    == c.g
        td   == takeDamage(g, contactDamage, r)
        hurt == td.g.player.hp # g.player.hp
        g1   == IF td.died
                THEN [spawnParticles(td.g, 30) EXCEPT !.gameState = "gameOver"]
                ELSE td.g
        g2   == [spawnParticles(g1, 15) EXCEPT
                   !.enemies = Splice(@, i), !.combo = 0, !.comboTimer = 0,
                   !.score = IF hurt THEN @ + 10 ELSE @]
        g3   == [addShake(g2, 8, r) EXCEPT !.hitstop = 30]
    IN  [c EXCEPT
           !.g = g3,
           !.ids = Splice(@, i),
           !.contacts = Append(@, [ei |-> c.ids[i], enemy |-> g.enemies[i],
                                   before |-> g.player, after |-> td.g.player,
                                   hitstopBefore |-> g.hitstop,
                                   hitstopAfter |-> td.g.hitstop,
                                   died |-> td.died,
                                   comboBefore |-> g.combo, combo |-> g3.combo,
                                   scoreBefore |-> g.score, score |-> g3.score,
                                   gameState |-> g3.gameState])]

\* Lines 527-541: enemy i touches the player.
ResolveContact(c, i, r) ==
    LET g    == c.g
        td   == takeDamage(g, contactDamage, r)
        g1   == IF td.died
                THEN [spawnParticles(td.g, 30) EXCEPT !.gameState = "gameOver"]
                ELSE td.g
        g2   == [spawnParticles(g1, 15) EXCEPT
                   !.enemies = Splice(@, i), !.combo = 0, !.comboTimer = 0,
                   !.score = @ + 10]
        g3   == [addShake(g2, 8, r) EXCEPT !.hitstop = 30]
    IN  [c EXCEPT
           !.g = g3,
           !.ids = Splice(@, i),
           !.contacts = Append(@, [ei |-> c.ids[i], enemy |-> g.enemies[i],
                                   before |-> g.player, after |-> td.g.player,
                                   hitstopBefore |-> g.hitstop,
                                   hitstopAfter |-> td.g.hitstop,
                                   died |-> td.died,
                                   comboBefore |-> g.combo, combo |-> g3.combo,
                                   scoreBefore |-> g.score, score |-> g3.score,
                                   gameState |-> g3.gameState])]

\* Lines 521-543, from enemy index i down.
RECURSIVE EnemiesVsPlayer(_, _, _)
EnemiesVsPlayer(c, i, r) ==
    IF i = 0 THEN c
    ELSE LET e == c.g.enemies[i]
             p == c.g.player
         IN  IF Overlap(e.x, e.y, e.radius, p.x, p.y, playerRadius)
             THEN EnemiesVsPlayer(ResolveContact(c, i, r), i - 1, r)
             ELSE EnemiesVsPlayer(c, i - 1, r)

\* The log of a checkCollisions call that has not run.
NoPass ==
    [ran |-> FALSE, bullets |-> <<>>, enemies |-> <<>>,
     player |-> NewPlayer(Arena),
     hits |-> <<>>, midBullets |-> <<>>, midEnemies |-> <<>>,
     contacts |-> <<>>, endEnemies |-> <<>>, endCombo |-> 0]

\* checkCollisions() with the player pass before the bullet pass.
checkCollisions_PlayerFirst(g, r) ==
    LET c1 == EnemiesVsPlayer([g |-> g, hits |-> <<>>, contacts |-> <<>>,
                               ids |-> [j \in 1..Len(g.enemies) |-> j]],
                              Len(g.enemies), r)
        c2 == BulletsVsEnemies(c1, Len(c1.g.bullets), r)
    IN  [g |-> c2.g,
         log |-> [ran |-> TRUE, bullets |-> g.bullets, enemies |-> g.enemies,
                  player |-> g.player, hits |-> c2.hits,
                  midBullets |-> c1.g.bullets, midEnemies |-> c1.g.enemies,
                  contacts |-> c2.contacts, endEnemies |-> c2.g.enemies,
                  endCombo |-> c2.g.combo]]

\* checkCollisions(): the game record after the call, and its log.
checkCollisions(g, r) ==
    LET c1 == BulletsVsEnemies([g |-> g, hits |-> <<>>, contacts |-> <<>>,
                                ids |-> [j \in 1..Len(g.enemies) |-> j]],
                               Len(g.bullets), r)
        c2 == EnemiesVsPlayer(c1, Len(c1.g.enemies), r)
    IN  [g |-> c2.g,
         log |-> [ran |-> TRUE, bullets |-> g.bullets, enemies |-> g.enemies,
                  player |-> g.player, hits |-> c2.hits,
                  midBullets |-> c1.g.bullets, midEnemies |-> c1.g.enemies,
                  contacts |-> c2.contacts, endEnemies |-> c2.g.enemies,
                  endCombo |-> c2.g.combo]]

----------------------------------------------------------------------------
(* The program's variables as one record, and back.                        *)

World ==
    [gameState |-> gameState, paused |-> paused, score |-> score,
     wave |-> wave, screenShake |-> screenShake, hitstop |-> hitstop,
     combo |-> combo, comboTimer |-> comboTimer, keys |-> keys,
     mouse |-> mouse, canvas |-> canvas, player |-> player,
     bullets |-> bullets,
     enemies |-> enemies, particles |-> particles,
     sinceShot |-> sinceShot, enemySpawnTimer |-> enemySpawnTimer,
     enemySpawnRate |-> enemySpawnRate, enemiesPerWave |-> enemiesPerWave,
     waveBannerTime |-> waveBannerTime]

Install(g) ==
    /\ gameState' = g.gameState
    /\ paused' = g.paused
    /\ score' = g.score
    /\ wave' = g.wave
    /\ screenShake' = g.screenShake
    /\ hitstop' = g.hitstop
    /\ combo' = g.combo
    /\ comboTimer' = g.comboTimer
    /\ keys' = g.keys
    /\ mouse' = g.mouse
    /\ canvas' = g.canvas
    /\ player' = g.player
    /\ bullets' = g.bullets
    /\ enemies' = g.enemies
    /\ particles' = g.particles
    /\ sinceShot' = g.sinceShot
    /\ enemySpawnTimer' = g.enemySpawnTimer
    /\ enemySpawnRate' = g.enemySpawnRate
    /\ enemiesPerWave' = g.enemiesPerWave
    /\ waveBannerTime' = g.waveBannerTime

----------------------------------------------------------------------------
(* gameLoop.                                                               *)

\* ComboDecay without "combo = 0" when the timer runs out.
ComboDecay_NoReset(g, dt) ==
    IF g.comboTimer > 0
    THEN LET t == g.comboTimer - dt
         IN  [g EXCEPT !.comboTimer = t]
    ELSE g

\* Lines 653-658: the combo timer.
ComboDecay(g, dt) ==
    IF g.comboTimer > 0
    THEN LET t == g.comboTimer - dt
         IN  [g EXCEPT !.comboTimer = t, !.combo = IF t <= 0 THEN 0 ELSE @]
    ELSE g

\* The hit-stop branch without "hitstop -= dt".
HitstopFrame_NoCountdown(g, dt) ==
    LET g1 == DecayShake(g)
    IN  [g1 EXCEPT
           !.enemies = [i \in 1..Len(@) |->
                          [@[i] EXCEPT !.hitFlash = IF @ > 0 THEN @ - dt ELSE @]],
           !.player = [DecayRecoil(@, dt) EXCEPT
                         !.ghostAfterimages = FadeGhosts(@, dt)]]

\* The hit-stop branch with the combo timer running.
HitstopFrame_ComboRuns(g, dt) ==
    LET g1 == DecayShake(ComboDecay([g EXCEPT !.hitstop = @ - dt], dt))
    IN  [g1 EXCEPT
           !.enemies = [i \in 1..Len(@) |->
                          [@[i] EXCEPT !.hitFlash = IF @ > 0 THEN @ - dt ELSE @]],
           !.player = [DecayRecoil(@, dt) EXCEPT
                         !.ghostAfterimages = FadeGhosts(@, dt)]]

\* Lines 622-647: the hit-stop branch, which returns before the updates.
HitstopFrame(g, dt) ==
    LET g1 == DecayShake([g EXCEPT !.hitstop = @ - dt])
    IN  [g1 EXCEPT
           !.enemies = [i \in 1..Len(@) |->
                          [@[i] EXCEPT !.hitFlash = IF @ > 0 THEN @ - dt ELSE @]],
           !.player = [DecayRecoil(@, dt) EXCEPT
                         !.ghostAfterimages = FadeGhosts(@, dt)]]

\* Shooting without the test of the cooldown.
Shoot_NoCooldown(g) ==
    IF g.mouse.down \/ " " \in g.keys
    THEN LET p == g.player
             b == NewBullet(p.x + SDiv(p.angle.c * PX(playerRadius + 5), 1000),
                            p.y + SDiv(p.angle.s * PX(playerRadius + 5), 1000),
                            p.angle)
         IN  [g EXCEPT !.bullets = Append(@, b), !.sinceShot = 0,
                       !.player.recoilOffset = 3000]
    ELSE g

\* Lines 662-671: a bullet is fired when the fire input is down and the last
\* shot is at least shootCooldown old.
Shoot(g) ==
    IF (g.mouse.down \/ " " \in g.keys) /\ g.sinceShot >= shootCooldown
    THEN LET p == g.player
             b == NewBullet(p.x + SDiv(p.angle.c * PX(playerRadius + 5), 1000),
                            p.y + SDiv(p.angle.s * PX(playerRadius + 5), 1000),
                            p.angle)
         IN  [g EXCEPT !.bullets = Append(@, b), !.sinceShot = 0,
                       !.player.recoilOffset = 3000]
    ELSE g

\* The filter with the test before the move.
BulletsUpdate_TestFirst(g, dt) ==
    [g EXCEPT !.bullets =
        LET kept == SelectSeq(@, LAMBDA b : ~isOffscreen(g.canvas, b))
        IN  [i \in 1..Len(kept) |-> BulletUpdate(kept[i], dt)]]

\* Lines 673-676: bullets move, and those off screen or too old are dropped.
BulletsUpdate(g, dt) ==
    [g EXCEPT !.bullets =
        SelectSeq([i \in 1..Len(@) |-> BulletUpdate(@[i], dt)],
                  LAMBDA b : ~isOffscreen(g.canvas, b))]

\* The spawn check without the test of the population.
Spawn_NoPopulationTest(g, dt, r) ==
    LET t == g.enemySpawnTimer - dt
    IN  IF g.waveBannerTime <= 0 /\ t <= 0
        THEN [g EXCEPT !.enemies = Append(@, NewEnemy(g.canvas, r)),
                       !.enemySpawnTimer = g.enemySpawnRate]
        ELSE [g EXCEPT !.enemySpawnTimer = t]

\* Lines 678-682: the spawn timer and the spawn of one enemy.
Spawn(g, dt, r) ==
    LET t == g.enemySpawnTimer - dt
    IN  IF g.waveBannerTime <= 0 /\ t <= 0 /\ Len(g.enemies) < g.enemiesPerWave
        THEN [g EXCEPT !.enemies = Append(@, NewEnemy(g.canvas, r)),
                       !.enemySpawnTimer = g.enemySpawnRate]
        ELSE [g EXCEPT !.enemySpawnTimer = t]

\* The enemies stand still while there are particles.
EnemiesUpdate_WaitsForParticles(g, dt) ==
    IF g.particles # <<>> THEN g
    ELSE [g EXCEPT !.enemies =
             [i \in 1..Len(@) |-> EnemyUpdate(@[i], g.player, dt)]]

\* Line 684: every enemy pursues the player.
EnemiesUpdate(g, dt) ==
    [g EXCEPT !.enemies = [i \in 1..Len(@) |-> EnemyUpdate(@[i], g.player, dt)]]

\* Lines 691-699: the banner timer, or the advance to the next wave.
WaveAdvance(g, dt) ==
    IF g.waveBannerTime > 0
    THEN [g EXCEPT !.waveBannerTime = @ - dt]
    ELSE IF Len(g.enemies) = 0 /\ g.enemySpawnTimer <= 0
    THEN LET w == g.wave + 1
         IN  [g EXCEPT !.wave = w, !.enemiesPerWave = 5 + w * 2,
                       !.enemySpawnRate = Max(500, 2000 - w * 100),
                       !.waveBannerTime = waveBannerDuration]
    ELSE g

\* The log of a gameLoop call that has not run.
NoStep == [dt |-> 0, dashed |-> FALSE, dashing |-> FALSE, fired |-> FALSE,
           spawned |-> FALSE, crowded |-> FALSE, dropped |-> 0, aged |-> 0]

\* The log of a frame without hit-stop, from the game records after
\* Player.update (pu), the shooting (g2), the bullet filter (bu) and the spawn
\* check (sp): whether Player.update started a dash (which alone leaves
\* dashCooldown at dashCooldownTime), whether the player is dashing at the
\* end of Player.update, whether a bullet was fired, whether an
\* enemy spawned and whether the spawn check found the population at its
\* target, how many bullets the filter dropped and how many of them for
\* their age.
StepLog(pu, g2, bu, sp, dt) ==
    [dt |-> dt,
     dashed |-> pu.player.dashCooldown = dashCooldownTime,
     dashing |-> pu.player.dashActive,
     fired |-> Len(g2.bullets) > Len(pu.bullets),
     spawned |-> Len(sp.enemies) > Len(bu.enemies),
     crowded |-> Len(bu.enemies) >= bu.enemiesPerWave,
     dropped |-> Len(g2.bullets) - Len(bu.bullets),
     aged |-> Cardinality({i \in 1..Len(g2.bullets) :
                 g2.bullets[i].age + dt >= bulletLifetime})]

\* What a frame without hit-stop leaves: the game record and the log of its
\* checkCollisions call (cc), and the log of the frame (st).
FrameResult(cc, st) ==
    [g |-> cc.g, frame |-> "normal", dt |-> st.dt, log |-> cc.log, step |-> st]

\* Lines 649-701: the updates of a frame without hit-stop.
NormalFrame(g, dt, r) ==
    LET g1 == ComboDecay(DecayShake(g), dt)
        pu == PlayerUpdate(g1, dt, r)
        g2 == Shoot(pu)
        bu == BulletsUpdate(g2, dt)
        sp == Spawn(bu, dt, r)
        g3 == EnemiesUpdate(sp, dt)
        g4 == WaveAdvance([g3 EXCEPT !.particles = ParticlesUpdate(@, dt)], dt)
    IN  FrameResult(checkCollisions(g4, r), StepLog(pu, g2, bu, sp, dt))

\* gameLoop whose guard tests only that the game is not over.
GameLoop_IgnoresPause(g0, elapsed, r) ==
    LET dt == Min(elapsed, MaxDt)
        g  == [g0 EXCEPT !.sinceShot = Min(shootCooldown, @ + elapsed)]
    IN  IF g.gameState # "gameOver"
        THEN IF g.hitstop > 0
             THEN [g |-> HitstopFrame(g, dt), frame |-> "hitstop", dt |-> dt,
                   log |-> pass, step |-> step]
             ELSE NormalFrame(g, dt, r)
        ELSE [g |-> g, frame |-> "idle", dt |-> 0, log |-> pass, step |-> step]

\* gameLoop(currentTime), for the frame interval elapsed = currentTime - lastTime.
GameLoop(g0, elapsed, r) ==
    LET dt == Min(elapsed, MaxDt)
        g  == [g0 EXCEPT !.sinceShot = Min(shootCooldown, @ + elapsed)]
    IN  IF g.gameState = "playing" /\ ~g.paused
        THEN IF g.hitstop > 0
             THEN [g |-> HitstopFrame(g, dt), frame |-> "hitstop", dt |-> dt,
                   log |-> pass, step |-> step]
             ELSE NormalFrame(g, dt, r)
        ELSE [g |-> g, frame |-> "idle", dt |-> 0, log |-> pass, step |-> step]

\* restart() without "gameState = 'playing'; paused = false".
restart_KeepsPause(g) ==
    [g EXCEPT !.player = NewPlayer(g.canvas), !.bullets = <<>>,
              !.enemies = <<>>,
              !.particles = <<>>, !.score = 0, !.wave = 1,
              !.enemySpawnTimer = 0, !.enemiesPerWave = 5,
              !.waveBannerTime = 0, !.screenShake = [x |-> 0, y |-> 0],
              !.hitstop = 0, !.combo = 0, !.comboTimer = 0,
              !.sinceShot = shootCooldown]

\* restart()
restart(g) ==
    [g EXCEPT !.player = NewPlayer(g.canvas), !.bullets = <<>>,
              !.enemies = <<>>,
              !.particles = <<>>, !.score = 0, !.wave = 1,
              !.enemySpawnTimer = 0, !.enemiesPerWave = 5,
              !.waveBannerTime = 0, !.gameState = "playing",
              !.paused = FALSE, !.screenShake = [x |-> 0, y |-> 0],
              !.hitstop = 0, !.combo = 0, !.comboTimer = 0,
              !.sinceShot = shootCooldown]

\* The keys that Player.update and the shooting test of gameLoop read.
ReadKeys == {"w", "a", "s", "d", "arrowup", "arrowdown", "arrowleft",
             "arrowright", "shift", "shiftleft", "shiftright", " "}

\* The keydown handler, lines 50-65, for e.key.toLowerCase() = k.
keydown(g, k) ==
    LET g1 == [g EXCEPT !.keys = @ \cup ({k} \cap ReadKeys)]
        g2 == IF k \in {"p", "escape"}
              THEN [g1 EXCEPT !.paused = ~g1.paused,
                              !.gameState = IF ~g1.paused THEN "paused"
                                            ELSE "playing"]
              ELSE g1
    IN  IF k = "r" THEN restart(g2) ELSE g2

----------------------------------------------------------------------------
(* The state machine.                                                      *)

NoRestart == [happened |-> FALSE, gameState |-> "playing", paused |-> FALSE,
              hitstop |-> 0, score |-> 0, hp |-> maxHp, entities |-> 0]

\* No takeDamage call has taken effect yet.
NoHurt == [since |-> invulnerableTime, dashed |-> FALSE]

\* Contact k of the collision log lg is one in which takeDamage took effect:
\* it has changed the player.
Struck(lg, k) == lg.contacts[k].after # lg.contacts[k].before

\* lastHurt after a frame with normal updates, its log lg and its step log st.
HurtAfter(lg, st) ==
    IF \E k \in 1..Len(lg.contacts) : Struck(lg, k)
    THEN [since |-> 0, dashed |-> FALSE]
    ELSE [since |-> IF st.dashing THEN lastHurt.since
                    ELSE Min(invulnerableTime, lastHurt.since + st.dt),
          dashed |-> lastHurt.dashed \/ st.dashed]

\* The state after the script has run in a window of size cv.
Construct(cv) ==
    /\ canvas = cv
    /\ gameState = "playing"
    /\ paused = FALSE
    /\ score = 0
    /\ wave = 1
    /\ screenShake = [x |-> 0, y |-> 0]
    /\ hitstop = 0
    /\ combo = 0
    /\ comboTimer = 0
    /\ keys = {}
    /\ mouse = [x |-> 0, y |-> 0, down |-> FALSE]
    /\ player = NewPlayer(cv)
    /\ bullets = <<>>
    /\ enemies = <<>>
    /\ particles = <<>>
    /\ sinceShot = shootCooldown
    /\ enemySpawnTimer = 0
    /\ enemySpawnRate = 2000
    /\ enemiesPerWave = 5
    /\ waveBannerTime = 0
    /\ inputs = 0
    /\ quiet = comboResetTime
    /\ frames = 0
    /\ simTime = 0
    /\ step = NoStep
    /\ dashes = 0
    /\ lastHurt = NoHurt
    /\ frame = "none"
    /\ pass = NoPass
    /\ discarded = NoRestart

Init == Construct(Arena)

\* The state after a gameLoop call with the result n.
EndFrame(n) ==
    /\ Install(n.g)
    /\ frame' = n.frame
    /\ pass' = n.log
    /\ step' = n.step
    /\ frames' = IF n.frame = "idle" THEN frames ELSE frames + 1
    /\ simTime' = simTime + n.dt
    /\ dashes' = IF n.frame = "normal" /\ n.step.dashed
                  THEN Min(dashes + 1, 2) ELSE dashes
    /\ lastHurt' = IF n.frame = "normal" THEN HurtAfter(n.log, n.step) ELSE lastHurt
    /\ quiet' = IF n.frame # "normal" THEN quiet
                 ELSE IF n.log.hits # <<>> THEN 0
                 ELSE Min(comboResetTime, quiet + n.dt)

\* One animation frame, gameLoop(lastTime + elapsed), elapsed one of times and
\* the random draws one of draws, of a game that has run for fewer than
\* horizon frames.
FrameWith(horizon, times, draws) ==
    \E elapsed \in times, r \in draws :
        /\ frames < horizon
        /\ EndFrame(GameLoop(World, elapsed, r))
        /\ discarded' = NoRestart
        /\ UNCHANGED inputs

Frame(horizon, times) == FrameWith(horizon, times, Draws)

\* A keydown event for a key of K, the limit-th input event at most.  (The
\* repeated keydown of a held key that the simulation reads changes nothing.)
Press(K, limit) ==
    \E k \in K \ keys :
        /\ inputs < limit
        /\ inputs' = Min(inputs + 1, MaxInputs)
        /\ Install(keydown(World, k))
        /\ discarded' = IF k = "r"
                        THEN [happened |-> TRUE, gameState |-> gameState,
                              paused |-> paused, hitstop |-> hitstop,
                              score |-> score, hp |-> player.hp,
                              entities |-> Len(bullets) + Len(enemies)
                                             + Len(particles)]
                        ELSE NoRestart
        /\ pass' = IF k = "r" THEN NoPass ELSE pass
        /\ step' = IF k = "r" THEN NoStep ELSE step
        /\ frames' = IF k = "r" THEN 0 ELSE frames
        /\ simTime' = IF k = "r" THEN 0 ELSE simTime
        /\ dashes' = IF k = "shift" THEN 0 ELSE dashes
        /\ lastHurt' = IF k = "r" THEN NoHurt ELSE lastHurt
        /\ quiet' = IF k = "r" THEN comboResetTime ELSE quiet
        /\ frame' = IF k = "r" THEN "none" ELSE frame

Tick == Frame(MaxFrames, FrameTimes)

KeyDown == Press(KeyInputs, MaxInputs)

\* A keyup event.
KeyUp ==
    \E k \in keys :
        /\ inputs < MaxInputs
        /\ inputs' = inputs + 1
        /\ keys' = keys \ {k}
        /\ dashes' = IF k = "shift" THEN 0 ELSE dashes
        /\ discarded' = NoRestart
        /\ UNCHANGED <<gameState, paused, score, wave, screenShake, hitstop,
                       combo, comboTimer, mouse, canvas, player, bullets,
                       enemies, particles, sinceShot, enemySpawnTimer,
                       enemySpawnRate, enemiesPerWave, waveBannerTime,
                       quiet, frames, simTime, step, lastHurt, frame, pass>>

\* A mousemove, mousedown or mouseup event on the canvas at one of positions,
\* the limit-th input event at most.
PointAt(positions, limit) ==
    \E m \in positions, d \in BOOLEAN :
        /\ inputs < limit
        /\ inputs' = Min(inputs + 1, MaxInputs)
        /\ mouse' = [x |-> m.x, y |-> m.y, down |-> d]
        /\ mouse' # mouse
        /\ discarded' = NoRestart
        /\ UNCHANGED <<gameState, paused, score, wave, screenShake, hitstop,
                       combo, comboTimer, keys, canvas, player, bullets,
                       enemies, particles, sinceShot, enemySpawnTimer,
                       enemySpawnRate, enemiesPerWave, waveBannerTime,
                       quiet, frames, simTime, step, dashes, lastHurt, frame,
                       pass>>

Point(limit) == PointAt(MousePositions, limit)

Mouse == Point(MaxInputs)

Next == Tick \/ KeyDown \/ KeyUp \/ Mouse

Spec == Init /\ [][Next]_vars

\* A game in which the player only pauses and restarts.
TickLong == Frame(MaxFramesLong, FrameTimes)

KeyDownLong == Press({"p", "r"}, MaxInputs + 1)

NextLong == TickLong \/ KeyDownLong

SpecLong == Init /\ [][NextLong]_vars

\* A game in which the player only aims and fires.
TickFire == Frame(MaxFramesFire, {MaxDt})

MouseFire == Point(MaxInputs + 1)

NextFire == TickFire \/ MouseFire

SpecFire == Init /\ [][NextFire]_vars

\* A game in a wide window in which the player stands still, aims left and
\* fires, and the enemies come from the left at the least or the greatest
\* speed.
SwarmDraws == [side : Sides, edge : EdgeDraws, radius : {19},
               speed : {80, 119}, shake : ShakeDraws]

InitSwarm == Construct([w |-> SwarmW, h |-> ArenaH])

TickSwarm == FrameWith(MaxFramesSwarm, {MaxDt}, SwarmDraws)

\* The player waits for the second enemy before the one mouse event.
MouseSwarm == Len(enemies) >= 2 /\ PointAt(MousePositions, 1)

NextSwarm == TickSwarm \/ MouseSwarm

SpecSwarm == InitSwarm /\ [][NextSwarm]_vars

\* A game in which the player only presses and releases the dash key.
TickDash == FrameWith(MaxFramesDash, {MaxDt}, Draws)

KeyDownDash == Press({"shift"}, 2)

NextDash == TickDash \/ KeyDownDash \/ KeyUp

SpecDash == Init /\ [][NextDash]_vars

\* A game in which the player holds the dash key from the start and then
\* fires or lets the key go.
KeyDownTimers == frames = 0 /\ Press({"shift"}, 1)

MouseTimers == inputs >= 1 /\ Point(MaxInputs)

NextTimers == TickFire \/ KeyDownTimers \/ KeyUp \/ MouseTimers

SpecTimers == Init /\ [][NextTimers]_vars

\* A game in a wide window in which the player, before the first frame, points
\* at the right edge, with the button down or not; the frames take 25 ms or
\* 29 ms, less than the clamp, and never get shorter.
InitVolley == Construct([w |-> VolleyW, h |-> ArenaH])

TickVolley ==
    FrameWith(MaxFramesVolley, {25, 29}, Draws) /\ step'.dt >= step.dt

MouseVolley ==
    frames = 0 /\ PointAt({[x |-> PX(VolleyW), y |-> PX(ArenaH) \div 2]}, 1)

NextVolley == TickVolley \/ MouseVolley

SpecVolley == InitVolley /\ [][NextVolley]_vars

\* The pursuit: no input, the player stands at the centre of a window of
\* 200 x 200, and the enemies come from the middle of the left edge, (-50, 100),
\* at speed 100, in frames of 25 ms or 33 ms.
PursuitDraws == [side : Sides, edge : EdgeDraws, radius : RadiusDraws,
                 speed : {100}, shake : ShakeDraws]

InitPursuit == Construct([w |-> PursuitW, h |-> PursuitH])

TickPursuit == FrameWith(MaxFramesPursuit, {25, MaxDt}, PursuitDraws)

SpecPursuit == InitPursuit /\ [][TickPursuit]_vars

\* A game without input in a window 1600 wide, with enemies of the least
\* speed from the left.
CrowdDraws == [side : Sides, edge : EdgeDraws, radius : {19},
               speed : {80}, shake : ShakeDraws]

InitCrowd == Construct([w |-> CrowdW, h |-> ArenaH])

TickCrowd == FrameWith(MaxFramesCrowd, FrameTimes, CrowdDraws)

SpecCrowd == InitCrowd /\ [][TickCrowd]_vars

\* A game in a window 2500 wide in which the player points once, at the
\* right edge or at the top above them, with the button down or not.
RangePositions == {[x |-> PX(RangeW), y |-> PX(ArenaH) \div 2],
                   [x |-> PX(RangeW) \div 2, y |-> 0]}

InitRange == Construct([w |-> RangeW, h |-> ArenaH])

MouseRange == PointAt(RangePositions, 1)

NextRange == TickFire \/ MouseRange

SpecRange == InitRange /\ [][NextRange]_vars

\* A game in which the player aims left, presses or releases the button
\* twice at most and restarts; the enemies come from the left at the least or
\* the greatest speed.
ComboDraws == [side : Sides, edge : EdgeDraws, radius : {19},
               speed : {80, 119}, shake : ShakeDraws]

TickCombo == FrameWith(MaxFramesCombo, {MaxDt}, ComboDraws)

MouseCombo == PointAt(MousePositions, 2)

KeyDownCombo == Press({"r"}, MaxInputs)

NextCombo == TickCombo \/ MouseCombo \/ KeyDownCombo

SpecCombo == Init /\ [][NextCombo]_vars

\* A game in which the player aims left and presses or releases the button
\* twice at most; a frame takes 33 ms or, during a hit-stop, 7 ms.  Every
\* gameLoop call ends with requestAnimationFrame(gameLoop), so the next call
\* always comes: before the horizon, a step that counts a frame (which only a
\* gameLoop call is) is always possible and is eventually taken.
TickFreeze == FrameWith(MaxFramesFreeze, {MaxDt}, Draws)

TickShort == hitstop > 0 /\ FrameWith(MaxFramesFreeze, {ShortFrame}, Draws)

MouseFreeze == Point(2)

NextFreeze == TickFreeze \/ TickShort \/ MouseFreeze

NextCall == frames < MaxFramesFreeze /\ frames' = frames + 1

SpecFreeze == Init /\ [][NextFreeze]_vars /\ WF_frames(NextCall)

\* A game in a window 1462 wide in which the player points straight up
\* before the first frame and dashes (upwards) once after having been hurt;
\* the enemies come from the left, the first three at one of three speeds and
\* the later ones at the least speed.
PileDraws == [side : Sides, edge : EdgeDraws, radius : {19},
              speed : {80, 100, 119}, shake : ShakeDraws]

InitPile == Construct([w |-> PileW, h |-> ArenaH])

TickPile ==
    FrameWith(MaxFramesPile, {MaxDt},
              IF frames < PileLead THEN PileDraws ELSE CrowdDraws)

MousePile ==
    /\ frames = 0
    /\ PointAt({[x |-> PX(PileW) \div 2, y |-> 0]}, 1)
    /\ ~mouse'.down

KeyDownPile ==
    /\ lastHurt.since < invulnerableTime
    /\ Press({"shift"}, 2)

NextPile == TickPile \/ MousePile \/ KeyDownPile

SpecPile == InitPile /\ [][NextPile]_vars

----------------------------------------------------------------------------
(* Properties.                                                             *)

\* A step of the program is a gameplay frame when frames is incremented.
GameplayFrame == frames' = frames + 1

\* The collision log: overlaps before the call, and what the call removed.
PassOverlap(i, j) ==
    Overlap(pass.bullets[i].x, pass.bullets[i].y, bulletRadius,
            pass.enemies[j].x, pass.enemies[j].y, pass.enemies[j].radius)

HitBullets == {pass.hits[h].bi : h \in 1..Len(pass.hits)}
HitEnemies == {pass.hits[h].ej : h \in 1..Len(pass.hits)}
ContactEnemies == {pass.contacts[k].ei : k \in 1..Len(pass.contacts)}

\* seq without the elements at the indices of S, in order.
RECURSIVE Without(_, _, _)
Without(seq, S, i) ==
    IF i > Len(seq) THEN <<>>
    ELSE (IF i \in S THEN <<>> ELSE <<seq[i]>>) \o Without(seq, S, i + 1)

\* C1: in every reachable state 0 <= player.hp <= player.maxHp and combo >= 0.
C1_HpAndComboInRange ==
    /\ 0 <= player.hp
    /\ player.hp <= maxHp
    /\ combo >= 0

\* C1's case: a resumed game in which an enemy damages a player whose hp is 0.
C1_Witness ==
    /\ frame = "normal"
    /\ \E k \in 1..Len(pass.contacts) :
          /\ pass.contacts[k].before.hp = 0
          /\ pass.contacts[k].before.invulnerable <= 0
          /\ ~pass.contacts[k].before.dashActive
          /\ pass.contacts[k].after.invulnerable = invulnerableTime
    /\ player.hp = 0

\* C2: a gameplay frame that starts with no enemies, spawn timer <= 0 and banner
\* timer <= 0 increments wave by exactly 1, sets enemiesPerWave to 5 + wave * 2
\* and the spawn rate to max(0.5, 2 - wave * 0.1) for the new wave, and starts
\* the banner timer.
C2_WaveTransition ==
    [][(/\ GameplayFrame
        /\ gameState = "playing" /\ ~paused /\ hitstop <= 0
        /\ Len(enemies) = 0 /\ enemySpawnTimer <= 0 /\ waveBannerTime <= 0)
       => (/\ wave' = wave + 1
           /\ enemiesPerWave' = 5 + wave' * 2
           /\ enemySpawnRate' = Max(500, 2000 - wave' * 100)
           /\ waveBannerTime' > 0)]_vars

\* C3: when gameplay frames continue unpaused and the player destroys every
\* enemy that spawns, the wave number increments: after MaxFramesFire frames
\* (two spawn intervals) of a game in which no enemy is left and none has
\* damaged the player, wave >= 2.
C3_WaveProgresses ==
    (/\ frames = MaxFramesFire
     /\ gameState = "playing" /\ ~paused
     /\ player.hp = maxHp /\ enemies = <<>> /\ score >= 30)
    => wave >= 2

\* C4 as claimed: every bullet and enemy that overlap when the collision pass
\* runs are both removed by it, and each hit increments combo by exactly 1,
\* resets the combo timer and adds 10 x (the incremented combo) to the score.
C4_EveryOverlapRemovesBoth ==
    pass.ran =>
      /\ \A i \in 1..Len(pass.bullets), j \in 1..Len(pass.enemies) :
            PassOverlap(i, j) =>
               i \in HitBullets /\ j \in HitEnemies \cup ContactEnemies
      /\ \A h \in 1..Len(pass.hits) :
            /\ pass.hits[h].combo = pass.hits[h].comboBefore + 1
            /\ pass.hits[h].comboTimer = comboResetTime
            /\ pass.hits[h].score = pass.hits[h].scoreBefore + 10 * pass.hits[h].combo

\* C4, amended: of every bullet and enemy that overlap when the collision pass
\* runs, the bullet or the enemy is removed by a hit of that pass; every hit
\* is of an overlapping pair, removes its bullet and its enemy, increments
\* combo by exactly 1, resets the combo timer to comboResetTime and adds
\* 10 x (the incremented combo) to the score.
C4_HitsResolveOverlaps ==
    pass.ran =>
      /\ \A i \in 1..Len(pass.bullets), j \in 1..Len(pass.enemies) :
            PassOverlap(i, j) => i \in HitBullets \/ j \in HitEnemies
      /\ \A h \in 1..Len(pass.hits) :
            /\ PassOverlap(pass.hits[h].bi, pass.hits[h].ej)
            /\ pass.hits[h].combo = pass.hits[h].comboBefore + 1
            /\ pass.hits[h].comboTimer = comboResetTime
            /\ pass.hits[h].score = pass.hits[h].scoreBefore + 10 * pass.hits[h].combo
      /\ pass.midBullets = Without(pass.bullets, HitBullets, 1)
      /\ pass.midEnemies = Without(pass.enemies, HitEnemies, 1)

\* C4's case: two bullets overlap one enemy, and a hit was resolved.
C4_Witness ==
    /\ pass.ran
    /\ pass.hits # <<>>
    /\ \E i, k \in 1..Len(pass.bullets), j \in 1..Len(pass.enemies) :
          i # k /\ PassOverlap(i, j) /\ PassOverlap(k, j)

\* C5: takeDamage called while invulnerable > 0 or while dashActive leaves hp
\* and the invulnerability timer unchanged, sets no hit-stop and returns false.
C5_BlockedDamage ==
    \A k \in 1..Len(pass.contacts) :
        LET t == pass.contacts[k]
        IN  (t.before.invulnerable > 0 \/ t.before.dashActive) =>
               /\ t.after.hp = t.before.hp
               /\ t.after.invulnerable = t.before.invulnerable
               /\ t.hitstopAfter = t.hitstopBefore
               /\ ~t.died

\* C5's case: an enemy reaches the player during a dash.
C5_Witness ==
    \E k \in 1..Len(pass.contacts) :
        /\ pass.contacts[k].before.dashActive
        /\ pass.contacts[k].after.hp = pass.contacts[k].before.hp

\* A step is a frame without hit-stop of an unpaused game in play.
UnstoppedFrame ==
    GameplayFrame /\ gameState = "playing" /\ ~paused /\ hitstop <= 0

\* C6: every bullet-enemy hit increases combo by exactly 1: a frame without
\* hit-stop in which no enemy touches the player and whose combo timer does not
\* run out adds the number of its hits to combo.  The combo timer decreases
\* only in frames without hit-stop of an unpaused game in play (or by a
\* restart), and after comboResetTime of such frames without a hit combo is 0.
C6_ComboMachine ==
    /\ [](quiet >= comboResetTime => combo = 0)
    /\ [](\A h \in 1..Len(pass.hits) :
             pass.hits[h].combo = pass.hits[h].comboBefore + 1)
    /\ [][/\ (UnstoppedFrame /\ pass'.contacts = <<>>
                /\ (comboTimer > MaxDt \/ combo = 0))
             => combo' = combo + Len(pass'.hits)
          /\ (comboTimer' < comboTimer /\ ~discarded'.happened)
             => UnstoppedFrame]_vars

\* C6's case: the combo of the first hit has run out, and the second hit
\* starts a new one.
C6_Witness ==
    /\ pass.hits # <<>>
    /\ quiet = 0
    /\ score = 20
    /\ player.hp = maxHp
    /\ comboTimer = comboResetTime
    /\ combo = 1

\* C7: a restart from any state yields score 0, wave 1, no bullets, enemies or
\* particles, a player with hp = maxHp, combo 0 and a game in play, not paused.
C7_RestartResets ==
    discarded.happened =>
       /\ score = 0 /\ wave = 1
       /\ bullets = <<>> /\ enemies = <<>> /\ particles = <<>>
       /\ player.hp = maxHp
       /\ combo = 0
       /\ gameState = "playing" /\ ~paused

\* C7's case: a restart of a paused game that was over, with enemies and
\* particles on screen and a score.
C7_Witness ==
    /\ discarded.happened
    /\ discarded.paused
    /\ discarded.hp = 0
    /\ discarded.score > 0
    /\ discarded.entities > 0

\* The gameplay state of C8, which a frame in hit-stop leaves alone: all but
\* hitstop, screenShake, the enemies' hitFlash, the player's recoilOffset and
\* ghostAfterimages.
Frozen ==
    <<gameState, paused, score, wave, combo, comboTimer, keys, mouse, bullets,
      particles, enemySpawnTimer, enemySpawnRate, enemiesPerWave,
      waveBannerTime,
      [player EXCEPT !.recoilOffset = 0, !.ghostAfterimages = <<>>],
      [i \in 1..Len(enemies) |-> [enemies[i] EXCEPT !.hitFlash = 0]]>>

\* C8: a frame that starts with hitstop > 0 in an unpaused game in play changes
\* no gameplay state: the player's position, hp, dash and invulnerability
\* timers, the bullets and enemies and their positions, score, combo, combo
\* timer, wave, spawn timer and banner timer are unchanged, hitstop decreases.
C8_HitstopFreezes ==
    [][(GameplayFrame /\ gameState = "playing" /\ ~paused /\ hitstop > 0)
       => (UNCHANGED Frozen /\ hitstop' < hitstop)]_vars

\* C8's case: a frame in hit-stop with the left key and the fire button held,
\* a combo running, a bullet in flight, shake and recoil.
C8_Witness ==
    /\ frame = "hitstop"
    /\ "a" \in keys
    /\ mouse.down
    /\ sinceShot >= shootCooldown
    /\ comboTimer > 0
    /\ bullets # <<>>
    /\ screenShake.x # 0
    /\ player.recoilOffset > 0

\* A step of a paused game that is no input event is a frame.
PausedFrame == paused /\ inputs' = inputs

\* C9 as claimed: a frame of a paused game changes what a frame in hit-stop
\* changes, the shake offset, hit-flash timers, recoil and afterimages, and
\* nothing else.
C9_PausedLikeHitstop ==
    [][PausedFrame
       => /\ UNCHANGED Frozen
          /\ screenShake' = HitstopFrame(World, MaxDt).screenShake
          /\ player' = HitstopFrame(World, MaxDt).player
          /\ enemies' = HitstopFrame(World, MaxDt).enemies]_vars

\* C9, amended: a frame of a paused game changes nothing: what a frame in
\* hit-stop freezes, and also hitstop, the shake offset, hit-flash timers,
\* recoil and afterimages.
C9_PausedFreezesAll ==
    [][PausedFrame
       => UNCHANGED <<Frozen, hitstop, screenShake, player, enemies>>]_vars

\* C9's case: a paused frame of a game with shake, recoil and a combo running.
C9_Witness ==
    /\ frame = "idle"
    /\ paused
    /\ screenShake.x # 0
    /\ player.recoilOffset > 0
    /\ comboTimer > 0

\* C10: an enemy that overlaps the player when the collision pass reaches it
\* is removed, combo is reset to 0 and score increases by 10, whether or not
\* the player took damage or died; a blocked contact leaves hp unchanged.
C10_ContactResolution ==
    pass.ran =>
      /\ \A j \in 1..Len(pass.enemies) :
            j \in ContactEnemies <=>
               /\ j \notin HitEnemies
               /\ Overlap(pass.enemies[j].x, pass.enemies[j].y,
                          pass.enemies[j].radius,
                          pass.player.x, pass.player.y, playerRadius)
      /\ pass.endEnemies = Without(pass.enemies, HitEnemies \cup ContactEnemies, 1)
      /\ \A k \in 1..Len(pass.contacts) :
            LET t == pass.contacts[k]
            IN  /\ t.combo = 0
                /\ t.score = t.scoreBefore + 10
                /\ (t.before.invulnerable > 0 \/ t.before.dashActive)
                   => t.after.hp = t.before.hp
      /\ pass.contacts # <<>> => pass.endCombo = 0

\* C10's case: an enemy touches a player who is invulnerable after an earlier
\* contact and not dashing.
C10_Witness ==
    /\ pass.ran
    /\ \E k \in 1..Len(pass.contacts) :
          /\ pass.contacts[k].before.invulnerable > 0
          /\ ~pass.contacts[k].before.dashActive
          /\ pass.contacts[k].score = pass.contacts[k].scoreBefore + 10

\* The enemies that the bullet of hit h overlapped when the loop reached it:
\* those that no earlier hit of the pass had removed.
Candidates(h) ==
    {j \in 1..Len(pass.enemies) :
        /\ PassOverlap(pass.hits[h].bi, j)
        /\ \A k \in 1..(h - 1) : pass.hits[k].ej # j}

\* The squared distance of bullet i and enemy j at the start of the pass.
PassDist2(i, j) ==
    (pass.bullets[i].x - pass.enemies[j].x) * (pass.bullets[i].x - pass.enemies[j].x)
    + (pass.bullets[i].y - pass.enemies[j].y) * (pass.bullets[i].y - pass.enemies[j].y)

\* C11 as claimed: the bullets are processed in the order they were inserted,
\* and a bullet that overlaps several enemies removes the earliest-inserted one.
C11_EarliestFirst ==
    pass.ran =>
      /\ \A h \in 1..(Len(pass.hits) - 1) : pass.hits[h].bi < pass.hits[h + 1].bi
      /\ \A h \in 1..Len(pass.hits) :
            \A j \in Candidates(h) : pass.hits[h].ej <= j

\* C11, amended: the bullets are processed from the latest-inserted to the
\* earliest, and a bullet that overlaps several enemies removes the
\* latest-inserted of them (not the nearest, not the earliest).
C11_LatestFirst ==
    pass.ran =>
      /\ \A h \in 1..(Len(pass.hits) - 1) : pass.hits[h].bi > pass.hits[h + 1].bi
      /\ \A h \in 1..Len(pass.hits) :
            /\ pass.hits[h].ej \in Candidates(h)
            /\ \A j \in Candidates(h) : j <= pass.hits[h].ej

\* C11's case: a bullet overlaps two enemies, and the one removed is neither
\* the earliest-inserted nor the nearest.
C11_Witness ==
    /\ pass.ran
    /\ \E h \in 1..Len(pass.hits) :
          \E j \in Candidates(h) :
             /\ j < pass.hits[h].ej
             /\ PassDist2(pass.hits[h].bi, j)
                  < PassDist2(pass.hits[h].bi, pass.hits[h].ej)

C13_TimersNonNegative ==
    /\ hitstop >= 0
    /\ comboTimer >= 0
    /\ enemySpawnTimer >= 0
    /\ waveBannerTime >= 0
    /\ player.invulnerable >= 0
    /\ player.dashTimer >= 0
    /\ player.dashCooldown >= 0
    /\ \A j \in 1..Len(enemies) : enemies[j].hitFlash >= 0

\* C13, amended: the timers are not clamped, but hit-stop, combo timer,
\* invulnerability, dash timer and dash cooldown are decremented only while
\* positive and so stay above minus one frame's dt; the spawn timer does so
\* too unless the spawn check found the population at its target; the banner
\* timer and the hit-flash of a live enemy are never below 0.
C13_TimersAboveMinusDt ==
    /\ hitstop > -MaxDt
    /\ comboTimer > -MaxDt
    /\ player.invulnerable > -MaxDt
    /\ player.dashTimer > -MaxDt
    /\ player.dashCooldown > -MaxDt
    /\ (~step.crowded => enemySpawnTimer > -MaxDt)
    /\ waveBannerTime >= 0
    /\ \A j \in 1..Len(enemies) : enemies[j].hitFlash >= 0

\* C13's case: the timers have run out and stand below 0.
C13_Witness ==
    /\ hitstop < 0
    /\ player.invulnerable < 0
    /\ player.dashTimer < 0
    /\ player.dashCooldown < 0

\* A bullet is spawned in this frame at least shootCooldown after the last
\* one (sinceShot is the time from the last spawn to the previous frame, and
\* the frame is no longer than the clamp).
SpawnAfterCooldown ==
    GameplayFrame /\ step'.fired => sinceShot + step'.dt >= shootCooldown

\* C14 as claimed: fire held from t = 0 for 1.0 s of simulated time spawns
\* exactly 6 bullets, and consecutive spawns are at least shootCooldown apart.
C14_ExactlySix ==
    /\ [](mouse.down /\ simTime = 1000 => Len(bullets) = 6)
    /\ [][SpawnAfterCooldown]_vars

\* C14, amended: with frames no longer than the clamp and fire held from t = 0
\* for 1.0 s of simulated time, the first bullet is spawned in the first tick
\* (and is still there), 6 or 7 bullets have been spawned, and consecutive
\* spawns are at least shootCooldown apart.
C14_SixOrSeven ==
    /\ [](mouse.down /\ frames >= 1 /\ simTime <= 1000 =>
             bullets # <<>> /\ bullets[1].age = simTime)
    /\ [](mouse.down /\ simTime = 1000 => Len(bullets) \in {6, 7})
    /\ [][SpawnAfterCooldown]_vars

\* C14's case: 40 ticks of 25 ms with fire held, and the 7 bullets spawned at
\* t = 0, 0.15, 0.30, ... 0.90.
C14_Witness ==
    /\ mouse.down
    /\ simTime = 1000
    /\ Len(bullets) = 7
    /\ \A i \in 1..7 : bullets[i].age = 1000 - shootCooldown * (i - 1)

\* The distance of the centres of enemy e and player p.
Dist(e, p) == ISqrt((p.x - e.x) * (p.x - e.x) + (p.y - e.y) * (p.y - e.y))

\* The enemy that was there before the frame has come nearer by speed * dt when
\* the collision pass of the frame begins.
Approach ==
    GameplayFrame /\ pass'.ran /\ enemies # <<>> =>
        Dist(pass'.enemies[1], player)
          = Dist(enemies[1], player) - Travel(1000, enemies[1].speed, step'.dt)

\* C15: in the pursuit scenario the enemy's distance to the player decreases
\* by speed * dt in every tick (it is 150 - 100 t after t seconds); an enemy
\* that overlaps the player when the collision pass runs is resolved in that
\* pass, so no enemy overlaps the player after a tick; the contact has
\* happened before 1.5 s; and the enemy never reaches the player's position.
C15_Pursuit ==
    /\ [][Approach]_vars
    /\ [](enemies # <<>> /\ simTime < 1500 =>
            Dist(enemies[1], player)
              = PX(PursuitW) \div 2 + PX(spawnMargin) - simTime)
    /\ [](pass.ran =>
            \A j \in 1..Len(pass.enemies) :
               Overlap(pass.enemies[j].x, pass.enemies[j].y,
                       pass.enemies[j].radius,
                       pass.player.x, pass.player.y, playerRadius)
                 => j \in ContactEnemies)
    /\ [](\A j \in 1..Len(enemies) :
            ~Overlap(enemies[j].x, enemies[j].y, enemies[j].radius,
                     player.x, player.y, playerRadius))
    /\ [](simTime >= 1500 => player.hp = maxHp - contactDamage)
    /\ [](pass.ran => \A j \in 1..Len(pass.enemies) :
                         pass.enemies[j].x < pass.player.x)

\* C15's case: the pursuing enemy has just made contact with the player, who
\* still stands at the centre, after more than 1 s and less than 1.5 s.
C15_Witness ==
    /\ frame = "normal"
    /\ pass.contacts # <<>>
    /\ player.x = PX(PursuitW) \div 2
    /\ player.y = PX(PursuitH) \div 2
    /\ player.hp = maxHp - contactDamage
    /\ enemies = <<>>
    /\ simTime > 1000
    /\ simTime < 1500

\* C16: in one pass no bullet and no enemy is in two hits, and the number of
\* bullets removed, the number of enemies removed and the increase of the
\* combo by the hits are all the number of hits.
C16_OneHitEach ==
    pass.ran =>
      /\ \A h, k \in 1..Len(pass.hits) :
            h # k => /\ pass.hits[h].bi # pass.hits[k].bi
                     /\ pass.hits[h].ej # pass.hits[k].ej
      /\ Len(pass.bullets) - Len(pass.midBullets) = Len(pass.hits)
      /\ Len(pass.enemies) - Len(pass.midEnemies) = Len(pass.hits)
      /\ pass.hits # <<>> =>
            pass.hits[Len(pass.hits)].combo - pass.hits[1].comboBefore
              = Len(pass.hits)

\* C16's case: one bullet overlapped two enemies; it is gone with one of them,
\* and the other enemy is still there after the bullets' loop.
C16_Witness ==
    /\ pass.ran
    /\ Len(pass.hits) = 1
    /\ Len(pass.midBullets) = Len(pass.bullets) - 1
    /\ \E j \in 1..Len(pass.enemies) :
          /\ j # pass.hits[1].ej
          /\ PassOverlap(pass.hits[1].bi, j)
          /\ \E m \in 1..Len(pass.midEnemies) : pass.midEnemies[m] = pass.enemies[j]

\* The game becomes over exactly in the frames whose collision pass has a
\* contact that killed the player.
DeathEndsGame ==
    (gameState # "gameOver" /\ gameState' = "gameOver")
      <=> /\ GameplayFrame
          /\ frame' = "normal"
          /\ \E k \in 1..Len(pass'.contacts) : pass'.contacts[k].died

\* C17: takeDamage returns true exactly when it is not blocked and the damage
\* brings hp to <= 0, and hp is then 0; the game state is GameOver from that
\* contact on, in the same pass; and the game state is GameOver only in states
\* where player.hp = 0.
C17_DeathIsGameOver ==
    /\ [](pass.ran =>
            \A k \in 1..Len(pass.contacts) :
               LET c == pass.contacts[k]
                   blocked == c.before.invulnerable > 0 \/ c.before.dashActive
               IN  /\ c.died <=> ~blocked /\ c.before.hp - contactDamage <= 0
                   /\ c.died => c.after.hp = 0 /\ c.gameState = "gameOver"
                   /\ c.gameState = "gameOver" =>
                         \E m \in 1..k : pass.contacts[m].died)
    /\ [](gameState = "gameOver" => player.hp = 0)
    /\ [][DeathEndsGame]_vars

\* C17's case: the tenth contact has taken the last 10 hp, and the game is
\* over.
C17_Witness ==
    /\ gameState = "gameOver"
    /\ player.hp = 0
    /\ \E k \in 1..Len(pass.contacts) :
          /\ pass.contacts[k].died
          /\ pass.contacts[k].before.hp = contactDamage
          /\ pass.contacts[k].gameState = "gameOver"

\* In a frame with normal updates an enemy is spawned exactly when the banner
\* timer is <= 0, the spawn timer is <= 0 after its decrement and fewer than
\* enemiesPerWave enemies are alive; then it is one enemy and the spawn timer
\* is reset to enemySpawnRate, else none and the timer keeps its new value.
SpawnGate ==
    GameplayFrame /\ frame' = "normal" =>
        LET t == enemySpawnTimer - step'.dt
        IN  /\ step'.spawned <=> /\ waveBannerTime <= 0
                                 /\ t <= 0
                                 /\ Len(enemies) < enemiesPerWave
            /\ step'.spawned =>
                  /\ Len(pass'.enemies) = Len(enemies) + 1
                  /\ enemySpawnTimer' = enemySpawnRate
            /\ ~step'.spawned =>
                  /\ Len(pass'.enemies) = Len(enemies)
                  /\ enemySpawnTimer' = t

\* C18: an enemy is spawned in a gameplay tick only if the banner timer is
\* <= 0, the decremented spawn timer is <= 0 and the enemy count is below the
\* target; at most one is spawned per tick, and the timer is then reset; the
\* number of enemies never exceeds enemiesPerWave.
C18_SpawnGating ==
    /\ [][SpawnGate]_vars
    /\ [](Len(enemies) <= enemiesPerWave)
    /\ [](pass.ran => Len(pass.enemies) <= enemiesPerWave)

\* C18's case: the spawn timer has run out, but the population is at its
\* target and no enemy was spawned.
C18_Witness ==
    /\ frame = "normal"
    /\ step.crowded
    /\ ~step.spawned
    /\ enemySpawnTimer < 0
    /\ Len(pass.enemies) = enemiesPerWave

\* The bullet fired in this frame has been moved once, is dt old and has
\* passed the test of the filter when the collision pass begins.
FiredBulletMoved ==
    GameplayFrame /\ frame' = "normal" /\ step'.fired =>
        /\ pass'.bullets # <<>>
        /\ LET b == pass'.bullets[Len(pass'.bullets)]
           IN  /\ b.age = step'.dt
               /\ b.x = b.prevX + Travel(b.angle.c, bulletSpeed, step'.dt)
               /\ b.y = b.prevY + Travel(b.angle.s, bulletSpeed, step'.dt)
               /\ ~isOffscreen(canvas, b)

\* C19: no active bullet is 2 s old or older, and none is farther than the
\* margin of 50 outside the window, after every tick; a bullet fired in a tick
\* is moved and tested in that tick.
C19_BulletLifetime ==
    /\ [](\A i \in 1..Len(bullets) :
             /\ bullets[i].age < bulletLifetime
             /\ bullets[i].x >= -PX(bulletMargin)
             /\ bullets[i].x <= PX(canvas.w) + PX(bulletMargin)
             /\ bullets[i].y >= -PX(bulletMargin)
             /\ bullets[i].y <= PX(canvas.h) + PX(bulletMargin))
    /\ [][FiredBulletMoved]_vars

\* C19's case: in one tick a bullet inside the window was dropped for its age,
\* a bullet was fired, and the bullets left are younger than 2 s.
C19_Witness ==
    /\ frame = "normal"
    /\ step.aged = 1
    /\ step.dropped = 1
    /\ step.fired
    /\ bullets # <<>>
    /\ bullets[1].age > bulletLifetime - shootCooldown - MaxDt

\* The record g without its particles: player, bullets, enemies, score,
\* combo, wave, timers, hit-stop, game state and inputs.
Gameplay(g) == [g EXCEPT !.particles = <<>>]

\* Other particle collections (sequences of ages) that a run could hold in
\* place of the present one.
OtherParticles ==
    {<<>>, <<0, 250, 499>>}
      \cup (IF particles = <<>> THEN {} ELSE {Tail(particles)})

\* C20: from two states that differ only in the particles, the same tick (the
\* same frame time and random draws) and the same key event lead to states
\* that differ only in the particles; so two such runs agree after every tick
\* on everything but the particles.
C20_ParticlesDoNotInterfere ==
    \A ps \in OtherParticles :
       LET other == [World EXCEPT !.particles = ps]
       IN  /\ \A elapsed \in FrameTimes, r \in Draws :
                LET a == GameLoop(World, elapsed, r)
                    b == GameLoop(other, elapsed, r)
                IN  /\ Gameplay(a.g) = Gameplay(b.g)
                    /\ a.frame = b.frame
                    /\ a.dt = b.dt
           /\ \A k \in KeyInputs :
                Gameplay(keydown(World, k)) = Gameplay(keydown(other, k))

\* C20's case: a tick with normal updates, with enemies and bullets alive, from
\* a state with particles and from the same state without them, which leaves
\* different particles.
C20_Witness ==
    /\ gameState = "playing"
    /\ hitstop <= 0
    /\ enemies # <<>>
    /\ bullets # <<>>
    /\ Len(particles) >= 8
    /\ \E elapsed \in FrameTimes, r \in Draws :
          GameLoop(World, elapsed, r).g.particles
            # GameLoop([World EXCEPT !.particles = <<>>], elapsed, r).g.particles

\* C21: game over lasts until restart().  A player with hp 0 has died and no
\* restart() has replaced it since; in such a state the game is not in play,
\* and no frame with normal updates starts from it.
C21_GameOverAbsorbing ==
    /\ [](player.hp = 0 => gameState # "playing")
    /\ [][GameplayFrame /\ frame' = "normal" => player.hp > 0]_vars

\* C22: between the handlers (gameLoop calls and input events), a positive
\* combo has a running timer: combo > 0 implies comboTimer > 0.
C22_ComboHasTimer == combo > 0 => comboTimer > 0

\* C22's case: an enemy has touched the player while a combo was running,
\* and the contact has left combo and timer at 0.
C22_Witness ==
    /\ frame = "normal"
    /\ pass.contacts # <<>>
    /\ pass.contacts[1].comboBefore > 0
    /\ combo = 0
    /\ comboTimer = 0

\* Enemy j of the collision log overlaps the player at the start of the call.
PassTouch(j) ==
    Overlap(pass.enemies[j].x, pass.enemies[j].y, pass.enemies[j].radius,
            pass.player.x, pass.player.y, playerRadius)

\* The enemies of the collision log that overlap both a bullet and the player.
Caught ==
    {j \in 1..Len(pass.enemies) :
        PassTouch(j) /\ \E i \in 1..Len(pass.bullets) : PassOverlap(i, j)}

\* The hit of the collision log that removed enemy j raised the combo by one
\* and the score by ten times the new combo.
HitScored(j) ==
    \E h \in 1..Len(pass.hits) :
       /\ pass.hits[h].ej = j
       /\ pass.hits[h].combo = pass.hits[h].comboBefore + 1
       /\ pass.hits[h].score = pass.hits[h].scoreBefore + 10 * pass.hits[h].combo

\* C23 as stated: every enemy that overlaps both a bullet and the player is
\* removed by a bullet, with combo + 1 and score + 10 x combo, and does not
\* touch the player in that call.
C23_BulletAlwaysWins ==
    pass.ran =>
       \A j \in Caught : /\ HitScored(j)
                         /\ j \notin ContactEnemies

\* C23: the bullet pass is over before the player pass starts.  An enemy that
\* overlaps both a bullet and the player is removed by a bullet (combo + 1,
\* score + 10 x combo) and does not touch the player in that call, unless
\* every bullet it overlaps has hit another enemy; then it touches the player.
\* Without a contact the call leaves the combo of its last hit.
C23_HitEnemySpared ==
    pass.ran =>
       /\ pass.midEnemies = Without(pass.enemies, HitEnemies, 1)
       /\ \A j \in HitEnemies : HitScored(j) /\ j \notin ContactEnemies
       /\ \A j \in Caught \ HitEnemies :
             /\ j \in ContactEnemies
             /\ \A i \in 1..Len(pass.bullets) :
                   PassOverlap(i, j) =>
                      \E h \in 1..Len(pass.hits) :
                         pass.hits[h].bi = i /\ pass.hits[h].ej # j
       /\ (pass.contacts = <<>> /\ pass.hits # <<>>) =>
             pass.endCombo = pass.hits[Len(pass.hits)].combo

\* C23's case: a bullet has removed an enemy that overlapped the player, and
\* the player has not been touched.
C23_Witness ==
    /\ frame = "normal"
    /\ pass.contacts = <<>>
    /\ \E j \in Caught : j \in HitEnemies
    /\ player.hp = maxHp
    /\ combo > 0

\* A frame of the hit-stop branch lowers hitstop.
FrozenCountdown ==
    GameplayFrame /\ frame' = "hitstop" => hitstop > 0 /\ hitstop' < hitstop

\* The frames that a hit-stop of 50 ms and the frame after it take at most.
ThawFrames == 50 \div ShortFrame + 2

\* C24: hitstop is at most 50 ms and a frame of the hit-stop branch lowers
\* it; so, as long as ThawFrames frames are left before the horizon, every
\* hit-stop runs out and every frame of the hit-stop branch is followed by a
\* frame with normal updates.
C24_HitstopEnds ==
    /\ [](hitstop <= 50)
    /\ [][FrozenCountdown]_vars
    /\ (hitstop > 0 /\ frames <= MaxFramesFreeze - ThawFrames) ~> (hitstop <= 0)
    /\ (frame = "hitstop" /\ frames <= MaxFramesFreeze - ThawFrames)
          ~> (frame = "normal")

\* C24's case: the fifth frame of the hit-stop after a bullet's hit, with the
\* game still frozen.
C24_Witness ==
    /\ frame = "hitstop"
    /\ pass.hits # <<>>
    /\ pass.contacts = <<>>
    /\ hitstop > 0
    /\ hitstop <= 50 - 5 * ShortFrame

\* The enemies of the collision log that overlap the player when the player
\* pass starts: those that overlap the player and that no bullet has removed.
Touching == {j \in 1..Len(pass.enemies) : PassTouch(j) /\ j \notin HitEnemies}

\* The player pass of the collision log, for a player who was vulnerable: every
\* touching enemy is removed in a contact, each contact adds 10 to the score,
\* takeDamage takes effect in the first contact only, and hp falls by loss.
OneStrike(loss) ==
    LET k == Len(pass.contacts)
    IN  /\ ContactEnemies = Touching
        /\ k = Cardinality(Touching)
        /\ Len(pass.endEnemies) = Len(pass.midEnemies) - k
        /\ pass.contacts[k].score - pass.contacts[1].scoreBefore = 10 * k
        /\ Struck(pass, 1)
        /\ \A m \in 2..k : ~Struck(pass, m)
        /\ pass.contacts[1].before.hp - pass.contacts[k].after.hp = loss

\* The collision log is of a call that found a vulnerable player touched.
VulnerableTouched ==
    /\ pass.ran
    /\ Touching # {}
    /\ pass.player.invulnerable <= 0
    /\ ~pass.player.dashActive

\* A gameLoop call with normal updates in which takeDamage takes effect.
HurtFrame ==
    /\ GameplayFrame
    /\ frame' = "normal"
    /\ \E k \in 1..Len(pass'.contacts) : Struck(pass', k)

\* The invulnerability timer over a gameLoop call: takeDamage sets it to
\* invulnerableTime, the start of a dash to dashDuration, and it is lowered by
\* dt in a call with normal updates that leaves the player not dashing; a
\* call of the hit-stop branch leaves it alone.
TimerRule ==
    GameplayFrame =>
       IF frame' = "normal"
       THEN LET base == IF step'.dashed THEN dashDuration
                        ELSE player.invulnerable
            IN  player'.invulnerable =
                   IF \E k \in 1..Len(pass'.contacts) : Struck(pass', k)
                   THEN invulnerableTime
                   ELSE IF base > 0 /\ ~step'.dashing THEN base - step'.dt
                   ELSE base
       ELSE player'.invulnerable = player.invulnerable

\* C25 as stated: enemies that touch a vulnerable player are all removed, with
\* 10 points each, and take 10 hp once; and takeDamage takes effect again only
\* after invulnerableTime of frames without hit-stop and without dash.
C25_OncePerWindow ==
    /\ [](VulnerableTouched => OneStrike(contactDamage))
    /\ [][HurtFrame => lastHurt.since + step'.dt >= invulnerableTime]_vars

\* C25: enemies that touch a vulnerable player are all removed, with 10 points
\* each, and take 10 hp once (or what is left of hp); takeDamage takes effect
\* again only when the invulnerability timer has run out and the player is
\* not dashing.  The timer is set to invulnerableTime by the hit and to
\* dashDuration by the start of a dash, and counts the frames without hit-stop
\* and without dash; if no dash has started since the hit, invulnerableTime
\* of such frames has passed.
C25_OncePerTimer ==
    /\ [](VulnerableTouched =>
            OneStrike(Min(contactDamage, pass.contacts[1].before.hp)))
    /\ [](pass.ran =>
            \A k \in 1..Len(pass.contacts) :
               Struck(pass, k) => /\ pass.contacts[k].before.invulnerable <= 0
                                  /\ ~pass.contacts[k].before.dashActive)
    /\ [][TimerRule]_vars
    /\ [][HurtFrame => \/ lastHurt.dashed
                       \/ lastHurt.since + step'.dt >= invulnerableTime]_vars

\* C25's case: two enemies have touched a vulnerable player in the same call;
\* both are gone, the score is up by 20 and hp by 10 down.
C25_Witness ==
    /\ frame = "normal"
    /\ VulnerableTouched
    /\ Cardinality(Touching) = 2
    /\ Len(pass.contacts) = 2
    /\ player.hp = pass.player.hp - contactDamage
    /\ player.invulnerable = invulnerableTime
    /\ score = pass.contacts[1].scoreBefore + 20

====
